---- MODULE Spec2Model ----
(***************************************************************************)
(* Model of the artifact store (src/src/store.rs) and of the request       *)
(* handlers that drive it (src/src/main.rs).                               *)
(*                                                                         *)
(* Strings are sequences of one-character strings, so that validation,     *)
(* prefix tests, line splitting and path resolution are computed           *)
(* character by character, as the code does.                               *)
(***************************************************************************)
EXTENDS Integers, Sequences, FiniteSets, TLC

VARIABLES
    dirs,      \* the directories of the filesystem, as resolved paths
    files,     \* the regular files: resolved path -> contents
    pc,        \* per request: the position of its handler
    req,       \* per request: the raw inputs of the request read so far
    auth,      \* per request: the allow-list checks that succeeded in it
    seen,      \* per request: what the current outpath_for call observed
    result,    \* per request: the response of the handler
    made,      \* per request: the paths it created or wrote
    input,     \* pure-function specifications: the input under test
    output     \* pure-function specifications: the value computed from it

vars == <<dirs, files, pc, req, auth, seen, result, made, input, output>>
storeVars == <<dirs, files, pc, req, auth, seen, result, made>>
pureVars == <<input, output>>

(***************************************************************************)
(* Bounds of the model.                                                    *)
(***************************************************************************)
NumReqs == 2        \* requests in flight
MaxFields == 2      \* fields with a file name in one multipart upload
MaxNameLen == 3     \* length of the names given to the validators
MaxFileLen == 4     \* length of the allow-list contents given to file_contains

(***************************************************************************)
(* Characters.                                                             *)
(***************************************************************************)
Letters == {"a", "b", "c", "d", "e", "f", "g", "i", "n", "o", "p", "q", "r",
            "s", "t", "v", "w", "x", "A", "B", "R", "T", "W"}
Digits == {"0", "1", "2"}

\* char::is_alphanumeric, on the characters of the model
is_alphanumeric(c) == c \in Letters \cup Digits

\* the character a letter is the case variant of
ToLower(c) ==
    CASE c = "A" -> "a" [] c = "B" -> "b" [] c = "R" -> "r" [] c = "T" -> "t"
      [] c = "W" -> "w" [] OTHER -> c

Str(S, n) == UNION {[1..k -> S] : k \in 0..n}

StartsWith(s, prefix) ==
    /\ Len(s) >= Len(prefix)
    /\ SubSeq(s, 1, Len(prefix)) = prefix

Ok(v) == [tag |-> "Ok", val |-> v]
Err(e) == [tag |-> "Err", val |-> e]
IsOk(r) == r.tag = "Ok"
IsErr(r, e) == r.tag = "Err" /\ r.val = e

Unit == <<>>

(***************************************************************************)
(* Name validation: Project::new and Version::new.                         *)
(***************************************************************************)
ProjectChar(c) == is_alphanumeric(c) \/ c \in {"-", "_"}
VersionChar(c) == is_alphanumeric(c) \/ c \in {"-", "_", "."}

FirstChar(name) == IF Len(name) > 0 THEN <<name[1]>> ELSE <<>>

Project_new(name) ==
    IF ~(\A i \in DOMAIN name : ProjectChar(name[i])) THEN Err("InvalidProject") ELSE Ok(name)

Version_new(name) ==
    IF ~(\A i \in DOMAIN name : VersionChar(name[i])) /\ FirstChar(name) # <<".">>
    THEN Err("InvalidVersion")
    ELSE Ok(name)

(***************************************************************************)
(* Credential::from_headers.  A header is absent (NoHeader) or a sequence  *)
(* of bytes; HighByte stands for one byte outside visible ASCII, on which  *)
(* HeaderValue::to_str fails.                                              *)
(***************************************************************************)
NoHeader == [present |-> FALSE, val |-> <<>>]
Header(v) == [present |-> TRUE, val |-> v]
HighByte == "\\xff"
Bearer == <<"B", "e", "a", "r", "e", "r", " ">>

to_str(val) ==
    IF \E i \in DOMAIN val : val[i] = HighByte THEN Err("bad header encoding")
    ELSE Ok(val)

\* an extraction that cuts the header one character early
from_headers_short(h) ==
    IF ~h.present THEN Err("UnprovidedAuthorization")
    ELSE IF ~IsOk(to_str(h.val)) THEN Err("bad header encoding")
    ELSE IF StartsWith(h.val, Bearer)
         THEN Ok(SubSeq(h.val, Len(Bearer), Len(h.val)))
         ELSE Err("unknown authentication method")

from_headers(h) ==
    IF ~h.present THEN Err("UnprovidedAuthorization")
    ELSE IF ~IsOk(to_str(h.val)) THEN Err("bad header encoding")
    ELSE IF StartsWith(h.val, Bearer)
         THEN Ok(SubSeq(h.val, Len(Bearer) + 1, Len(h.val)))
         ELSE Err("unknown authentication method")

(***************************************************************************)
(* BufRead::lines and file_contains.                                       *)
(***************************************************************************)
\* position of the first line feed of s, 0 when it has none
FirstLF(s) ==
    IF \E i \in DOMAIN s : s[i] = "\n"
    THEN CHOOSE i \in DOMAIN s : s[i] = "\n" /\ \A j \in 1..(i - 1) : s[j] # "\n"
    ELSE 0

\* a line read up to its line feed loses the carriage return before it
StripCR(l) ==
    IF Len(l) > 0 /\ l[Len(l)] = "\r" THEN SubSeq(l, 1, Len(l) - 1) ELSE l

RECURSIVE Lines(_)
Lines(s) ==
    IF s = <<>> THEN <<>>
    ELSE LET k == FirstLF(s) IN
         IF k = 0 THEN <<s>>
         ELSE <<StripCR(SubSeq(s, 1, k - 1))>> \o Lines(SubSeq(s, k + 1, Len(s)))

RECURSIVE AnyLine(_, _, _)
\* Iterator::any(|l| l == line) over the lines, from position i on
AnyLine(ls, i, line) ==
    IF i > Len(ls) THEN FALSE
    ELSE IF ls[i] = line THEN TRUE
    ELSE AnyLine(ls, i + 1, line)

\* file_contains on the outcome of File::open: the contents, or no file
NoFile == [open |-> FALSE, content |-> <<>>]
Opened(c) == [open |-> TRUE, content |-> c]

\* a scan that accepts a line the token is a prefix of
file_contains_prefix(f, line) ==
    IF ~f.open THEN Err("IO")
    ELSE Ok(\E i \in DOMAIN Lines(f.content) : StartsWith(Lines(f.content)[i], line))

file_contains(f, line) ==
    IF ~f.open THEN Err("IO") ELSE Ok(AnyLine(Lines(f.content), 1, line))

(***************************************************************************)
(* Paths.  A PathBuf is a string; the filesystem resolves it component by  *)
(* component.  A resolved path is the sequence of the names from "/".      *)
(***************************************************************************)
FirstSep(s) ==
    IF \E i \in DOMAIN s : s[i] = "/"
    THEN CHOOSE i \in DOMAIN s : s[i] = "/" /\ \A j \in 1..(i - 1) : s[j] # "/"
    ELSE 0

RECURSIVE Split(_)
\* the components of a path string, the empty ones included
Split(s) ==
    LET k == FirstSep(s) IN
    IF k = 0 THEN <<s>>
    ELSE <<SubSeq(s, 1, k - 1)>> \o Split(SubSeq(s, k + 1, Len(s)))

\* PathBuf::push: an absolute argument replaces the path, any other one is
\* appended after a separator
Push(path, s) ==
    IF Len(s) > 0 /\ s[1] = "/" THEN s
    ELSE IF Len(path) > 0 /\ path[Len(path)] = "/" THEN path \o s
    ELSE path \o <<"/">> \o s

Parent(node) == IF node = <<>> THEN <<>> ELSE SubSeq(node, 1, Len(node) - 1)

IsDir(node) == node \in dirs
IsFile(node) == node \in DOMAIN files

RECURSIVE Walk(_, _, _)
\* path resolution: every component is looked up in a directory; the last
\* name need not exist
Walk(comps, i, cur) ==
    IF i > Len(comps) THEN [st |-> "ok", node |-> cur]
    ELSE IF IsFile(cur) THEN [st |-> "notdir", node |-> cur]
    ELSE IF ~IsDir(cur) THEN [st |-> "noent", node |-> cur]
    ELSE IF comps[i] \in {<<>>, <<".">>} THEN Walk(comps, i + 1, cur)
    ELSE IF comps[i] = <<".", ".">> THEN Walk(comps, i + 1, Parent(cur))
    ELSE Walk(comps, i + 1, Append(cur, comps[i]))

Resolve(path) == Walk(Split(path), 1, <<>>)

\* the names in directory node
Entries(node) ==
    {n[Len(n)] : n \in {m \in dirs \cup DOMAIN files :
                           Len(m) = Len(node) + 1 /\ Parent(m) = node}}

\* fs::exists
fs_exists(path) ==
    LET w == Resolve(path) IN
    IF w.st = "notdir" THEN Err("IO")
    ELSE Ok(w.st = "ok" /\ (IsDir(w.node) \/ IsFile(w.node)))

\* fs::read_dir, collected
fs_read_dir(path) ==
    LET w == Resolve(path) IN
    IF w.st = "ok" /\ IsDir(w.node) THEN Ok(Entries(w.node)) ELSE Err("IO")

\* a create that accepts a directory that exists already (create_dir_all)
fs_create_dir_all(path) ==
    LET w == Resolve(path) IN
    IF w.st = "ok" /\ ~IsFile(w.node) THEN Ok(w.node) ELSE Err("IO")

\* fs::create_dir: fails when the path exists already
fs_create_dir(path) ==
    LET w == Resolve(path) IN
    IF w.st = "ok" /\ ~IsDir(w.node) /\ ~IsFile(w.node) THEN Ok(w.node)
    ELSE Err("IO")

\* fs::write: creates or truncates a regular file
fs_write(path) ==
    LET w == Resolve(path) IN
    IF w.st = "ok" /\ ~IsDir(w.node) THEN Ok(w.node) ELSE Err("IO")

\* File::open
fs_open(path) ==
    LET w == Resolve(path) IN
    IF w.st = "ok" /\ IsFile(w.node) THEN Opened(files[w.node]) ELSE NoFile

(***************************************************************************)
(* The store.                                                              *)
(***************************************************************************)
StoreDir == <<"/", "s">>
ReadersTxt == <<"r", "e", "a", "d", "e", "r", "s", ".", "t", "x", "t">>
WritersTxt == <<"w", "r", "i", "t", "e", "r", "s", ".", "t", "x", "t">>
Versions == <<"v", "e", "r", "s", "i", "o", "n", "s">>

\* Store::authorized_reader
authorized_reader(token, project) ==
    LET r == file_contains(fs_open(Push(Push(StoreDir, project), ReadersTxt)), token) IN
    IF ~IsOk(r) THEN Err("IO")
    ELSE IF r.val THEN Ok(Unit)
    ELSE Err("unauthorized reader")

\* a check that takes a list it cannot open for a list without the token
authorized_writer_lenient(token, project) ==
    LET r == file_contains(fs_open(Push(Push(StoreDir, project), WritersTxt)), token) IN
    IF IsOk(r) /\ r.val THEN Ok(Unit) ELSE Err("unauthorized writer")

\* Store::authorized_writer
authorized_writer(token, project) ==
    LET r == file_contains(fs_open(Push(Push(StoreDir, project), WritersTxt)), token) IN
    IF ~IsOk(r) THEN Err("IO")
    ELSE IF r.val THEN Ok(Unit)
    ELSE Err("unauthorized writer")

\* a project_reader that drops the outcome of the allow-list check
project_reader_unchecked(project_name, headers) ==
    LET cred == from_headers(headers) IN
    IF ~IsOk(cred) THEN cred
    ELSE LET project == Project_new(project_name) IN
         IF ~IsOk(project) THEN project ELSE Ok(project.val)

\* Store::project_reader
project_reader(project_name, headers) ==
    LET cred == from_headers(headers) IN
    IF ~IsOk(cred) THEN cred
    ELSE LET project == Project_new(project_name) IN
         IF ~IsOk(project) THEN project
         ELSE LET a == authorized_reader(cred.val, project.val) IN
              IF ~IsOk(a) THEN a ELSE Ok(project.val)

\* a project_writer that checks the readers list
project_writer_readers(project_name, headers) ==
    LET cred == from_headers(headers) IN
    IF ~IsOk(cred) THEN cred
    ELSE LET project == Project_new(project_name) IN
         IF ~IsOk(project) THEN project
         ELSE LET a == authorized_reader(cred.val, project.val) IN
              IF ~IsOk(a) THEN a ELSE Ok(project.val)

\* Store::project_writer
project_writer(project_name, headers) ==
    LET cred == from_headers(headers) IN
    IF ~IsOk(cred) THEN cred
    ELSE LET project == Project_new(project_name) IN
         IF ~IsOk(project) THEN project
         ELSE LET a == authorized_writer(cred.val, project.val) IN
              IF ~IsOk(a) THEN a ELSE Ok(project.val)

\* Store::list_projects
list_projects == fs_read_dir(StoreDir)

\* Store::versions_dir
versions_dir(project) == Push(Push(StoreDir, project), Versions)

\* the directory of a version: versions_dir with the version name pushed
version_dir(project, version) == Push(versions_dir(project), version)

\* Store::list_versions
list_versions(project) == fs_read_dir(versions_dir(project))

\* a resolver that takes the first entry of any directory that is not empty
file_for_version_first(project, version) ==
    LET version_contents == fs_read_dir(version_dir(project, version)) IN
    IF ~IsOk(version_contents) THEN version_contents
    ELSE IF version_contents.val = {} THEN Err("CorruptedVersion")
    ELSE Ok(CHOOSE f \in version_contents.val : TRUE)

\* Store::file_for_version
file_for_version(project, version) ==
    LET version_contents == fs_read_dir(version_dir(project, version)) IN
    IF ~IsOk(version_contents) THEN version_contents
    ELSE IF Cardinality(version_contents.val) # 1 THEN Err("CorruptedVersion")
    ELSE Ok(CHOOSE f \in version_contents.val : TRUE)

\* Store::path_for_version
path_for_version(project, version) ==
    LET file == file_for_version(project, version) IN
    IF ~IsOk(file) THEN file
    ELSE Ok(Push(Push(versions_dir(project), version), file.val))

(***************************************************************************)
(* Requests.  Each request slot runs one handler of main.rs; the raw       *)
(* strings of a request are chosen where the handler first reads them.     *)
(***************************************************************************)
Reqs == 1..NumReqs

ProjectInputs == {<<"p">>, <<"q">>, <<>>, <<".", ".">>}
TokR == <<"r">>
TokW == <<"w">>
HeaderInputs == {NoHeader, Header(TokW), Header(Bearer \o TokR), Header(Bearer \o TokW)}
VersionInputs ==
    {<<"1">>, <<"2">>, <<".", ".">>, <<".", "/", "1", "/", "d">>, <<"1", "/", "d">>}
FileNames == {<<"f">>, <<"g">>, <<".", ".", "/", "1", "/", "f">>, <<>>}
Bytes == {<<"x">>, <<"y">>}
ReadKinds == {"get_versions", "get_version", "get_version_content"}

NoReq ==
    [kind |-> "none", header |-> NoHeader, project |-> <<>>, version |-> <<>>,
     fname |-> <<>>, outpath |-> <<>>, got_file |-> FALSE, nfields |-> 0]
NoCall ==
    [called |-> FALSE, resolved |-> FALSE, node |-> <<>>, populated |-> FALSE, abandoned |-> FALSE,
     absent |-> FALSE, ret |-> "none"]

\* the allow-list checks that succeed for these raw inputs
Checked(list, project_name, headers) ==
    LET cred == from_headers(headers)
        project == Project_new(project_name) IN
    IF IsOk(cred) /\ IsOk(project)
       /\ IsOk(IF list = ReadersTxt THEN authorized_reader(cred.val, project.val)
                ELSE authorized_writer(cred.val, project.val))
    THEN {<<list, project.val>>}
    ELSE {}

Finish(r, res) ==
    /\ pc' = [pc EXCEPT ![r] = "done"]
    /\ result' = [result EXCEPT ![r] = res]

\* get_projects: store.list_projects()?, with no credential
GetProjects(r) ==
    /\ pc[r] = "idle"
    /\ req' = [req EXCEPT ![r] = [NoReq EXCEPT !.kind = "get_projects"]]
    /\ Finish(r, list_projects)
    /\ UNCHANGED <<dirs, files, auth, seen, made, input, output>>

\* get_versions, get_version, get_version_content: store.project_reader(..)?
ReadStart(r) ==
    /\ pc[r] = "idle"
    /\ \E kind \in ReadKinds, project \in ProjectInputs, h \in HeaderInputs :
         LET pr == project_reader(project, h) IN
         /\ auth' = [auth EXCEPT ![r] = Checked(ReadersTxt, project, h)]
         /\ IF IsOk(pr)
            THEN /\ req' = [req EXCEPT ![r] = [NoReq EXCEPT !.kind = kind,
                                    !.header = h, !.project = pr.val]]
                 /\ pc' = [pc EXCEPT ![r] =
                              IF kind = "get_versions" THEN "list_versions" ELSE "version"]
                 /\ UNCHANGED result
            ELSE /\ req' = [req EXCEPT ![r] = [NoReq EXCEPT !.kind = kind,
                                    !.header = h, !.project = project]]
                 /\ Finish(r, pr)
    /\ UNCHANGED <<dirs, files, seen, made, input, output>>

\* new_version: store.project_writer(..)?
WriteStart(r) ==
    /\ pc[r] = "idle"
    /\ \E project \in ProjectInputs, h \in HeaderInputs :
         LET pw == project_writer(project, h) IN
         /\ auth' = [auth EXCEPT ![r] = Checked(WritersTxt, project, h)]
         /\ IF IsOk(pw)
            THEN /\ req' = [req EXCEPT ![r] = [NoReq EXCEPT !.kind = "new_version",
                                    !.header = h, !.project = pw.val]]
                 /\ pc' = [pc EXCEPT ![r] = "version"]
                 /\ UNCHANGED result
            ELSE /\ req' = [req EXCEPT ![r] = [NoReq EXCEPT !.kind = "new_version",
                                    !.header = h, !.project = project]]
                 /\ Finish(r, pw)
    /\ UNCHANGED <<dirs, files, seen, made, input, output>>

\* get_versions: store.list_versions(&project)?
GetVersions(r) ==
    /\ pc[r] = "list_versions"
    /\ Finish(r, list_versions(req[r].project))
    /\ UNCHANGED <<dirs, files, req, auth, seen, made, input, output>>

\* Version::new(version)? of the three handlers that take a version
VersionNew(r) ==
    /\ pc[r] = "version"
    /\ \E v \in VersionInputs :
         LET version == Version_new(v) IN
         IF IsOk(version)
         THEN /\ req' = [req EXCEPT ![r].version = version.val]
              /\ pc' = [pc EXCEPT ![r] =
                           IF req[r].kind = "new_version" THEN "fields"
                           ELSE "file_for_version"]
              /\ UNCHANGED result
         ELSE /\ req' = [req EXCEPT ![r].version = v]
              /\ Finish(r, version)
    /\ UNCHANGED <<dirs, files, auth, seen, made, input, output>>

\* new_version: params.get("version") is None
VersionMissing(r) ==
    /\ pc[r] = "version"
    /\ req[r].kind = "new_version"
    /\ Finish(r, Err("did not provide version"))
    /\ UNCHANGED <<dirs, files, req, auth, seen, made, input, output>>

\* get_version, get_version_content: store.file_for_version(..)? and, in
\* get_version_content, the comparison with the file of the request
FileForVersion(r) ==
    /\ pc[r] = "file_for_version"
    /\ LET file == file_for_version(req[r].project, req[r].version) IN
       IF ~IsOk(file) THEN Finish(r, file) /\ UNCHANGED req
       ELSE IF req[r].kind = "get_version" THEN Finish(r, file) /\ UNCHANGED req
       ELSE \E given_file \in {<<"f">>, <<"g">>} :
              IF file.val # given_file
              THEN Finish(r, Err("InvalidFile")) /\ UNCHANGED req
              ELSE /\ pc' = [pc EXCEPT ![r] = "path_for_version"]
                   /\ UNCHANGED <<req, result>>
    /\ UNCHANGED <<dirs, files, auth, seen, made, input, output>>

\* get_version_content: store.path_for_version(..)?
PathForVersion(r) ==
    /\ pc[r] = "path_for_version"
    /\ LET path == path_for_version(req[r].project, req[r].version) IN
       IF ~IsOk(path) THEN Finish(r, path) /\ UNCHANGED req
       ELSE /\ req' = [req EXCEPT ![r].outpath = path.val]
            /\ pc' = [pc EXCEPT ![r] = "serve"]
            /\ UNCHANGED result
    /\ UNCHANGED <<dirs, files, auth, seen, made, input, output>>

\* get_version_content: ServeFile::new(&path).try_call(req)
ServeFile(r) ==
    /\ pc[r] = "serve"
    /\ LET f == fs_open(req[r].outpath) IN
       Finish(r, IF f.open THEN Ok(f.content) ELSE Err("IO"))
    /\ UNCHANGED <<dirs, files, req, auth, seen, made, input, output>>

(***************************************************************************)
(* new_version: the loop over the multipart fields, with outpath_for       *)
(* taken one filesystem call at a time.                                    *)
(***************************************************************************)
\* the resolved directory of the version of request r
VersionNode(r) == Resolve(version_dir(req[r].project, req[r].version)).node

\* a directory that holds a regular file
HasFile(node) == \E m \in DOMAIN files : Parent(m) = node

\* requests that hold a destination in the directory and have not written yet
Writing(node) == {q \in Reqs : pc[q] = "bytes" /\ VersionNode(q) = node}

\* while let Some(field) = multipart.next_field().await?: a field with a file
\* name starts outpath_for
NextField(r) ==
    /\ pc[r] = "fields"
    /\ req[r].nfields < MaxFields
    /\ \E file_name \in FileNames :
         req' = [req EXCEPT ![r].fname = file_name, ![r].nfields = @ + 1,
                            ![r].outpath = <<>>]
    /\ pc' = [pc EXCEPT ![r] = "exists"]
    /\ seen' = [seen EXCEPT ![r] = NoCall]
    /\ UNCHANGED <<dirs, files, auth, result, made, input, output>>

\* a field without a file name: continue, with nothing changed but the
\* position in the stream
SkipField(r) ==
    /\ pc[r] = "fields"
    /\ UNCHANGED vars

\* multipart.next_field().await? fails
NextFieldFail(r) ==
    /\ pc[r] = "fields"
    /\ Finish(r, Err("multipart"))
    /\ UNCHANGED <<dirs, files, req, auth, seen, made, input, output>>

\* no field is left: the response of new_version
EndOfFields(r) ==
    /\ pc[r] = "fields"
    /\ Finish(r, IF req[r].got_file THEN Ok("successful upload")
                 ELSE Err("failed to upload"))
    /\ UNCHANGED <<dirs, files, req, auth, seen, made, input, output>>

\* outpath_for: fs::exists(&version_path)
OutpathExists(r) ==
    /\ pc[r] = "exists"
    /\ LET path == version_dir(req[r].project, req[r].version)
           w == Resolve(path)
           e == fs_exists(path)
           here == [NoCall EXCEPT
                      !.called = TRUE,
                      !.resolved = (w.st = "ok"),
                      !.node = w.node,
                      !.populated = (w.st = "ok" /\ IsDir(w.node) /\ HasFile(w.node)),
                      !.abandoned = (w.st = "ok" /\ IsDir(w.node)
                                     /\ Entries(w.node) = {}
                                     /\ Writing(w.node) = {}),
                      !.absent = (IsOk(e) /\ ~e.val)] IN
       IF ~IsOk(e)
       THEN /\ seen' = [seen EXCEPT ![r] = [here EXCEPT !.ret = "IO"]]
            /\ Finish(r, e)
       ELSE /\ seen' = [seen EXCEPT ![r] = here]
            /\ pc' = [pc EXCEPT ![r] = IF e.val THEN "read_dir" ELSE "create_dir"]
            /\ UNCHANGED result
    /\ UNCHANGED <<dirs, files, req, auth, made, input, output>>

\* an outpath_for that lists the directory and goes on whatever it holds
OutpathReadDirNoCheck(r) ==
    /\ pc[r] = "read_dir"
    /\ LET d == fs_read_dir(version_dir(req[r].project, req[r].version)) IN
       IF ~IsOk(d)
       THEN /\ seen' = [seen EXCEPT ![r].ret = "IO"]
            /\ Finish(r, d)
       ELSE /\ pc' = [pc EXCEPT ![r] = "create_dir"]
            /\ UNCHANGED <<seen, result>>
    /\ UNCHANGED <<dirs, files, req, auth, made, input, output>>

\* outpath_for: fs::read_dir(&version_path)?.next().is_none()
OutpathReadDir(r) ==
    /\ pc[r] = "read_dir"
    /\ LET d == fs_read_dir(version_dir(req[r].project, req[r].version)) IN
       IF ~IsOk(d)
       THEN /\ seen' = [seen EXCEPT ![r].ret = "IO"]
            /\ Finish(r, d)
       ELSE IF d.val # {}
       THEN /\ seen' = [seen EXCEPT ![r].ret = "version already exists"]
            /\ Finish(r, Err("version already exists"))
       ELSE /\ pc' = [pc EXCEPT ![r] = "create_dir"]
            /\ UNCHANGED <<seen, result>>
    /\ UNCHANGED <<dirs, files, req, auth, made, input, output>>

\* an outpath_for that leaves a placeholder file in the directory it creates
OutpathCreateDirKeep(r) ==
    /\ pc[r] = "create_dir"
    /\ LET path == version_dir(req[r].project, req[r].version)
           c == fs_create_dir(path) IN
       IF ~IsOk(c)
       THEN /\ seen' = [seen EXCEPT ![r].ret = "IO"]
            /\ Finish(r, c)
            /\ UNCHANGED <<dirs, files, req, made>>
       ELSE /\ dirs' = dirs \cup {c.val}
            /\ files' = [n \in DOMAIN files \cup {Append(c.val, <<"k">>)} |->
                            IF n \in DOMAIN files THEN files[n] ELSE <<>>]
            /\ made' = [made EXCEPT ![r] = @ \cup {c.val}]
            /\ req' = [req EXCEPT ![r].outpath = Push(path, req[r].fname)]
            /\ seen' = [seen EXCEPT ![r].ret = "path"]
            /\ pc' = [pc EXCEPT ![r] = "bytes"]
            /\ UNCHANGED result
    /\ UNCHANGED <<auth, input, output>>

\* outpath_for: fs::create_dir(&version_path)?, then the destination
OutpathCreateDir(r) ==
    /\ pc[r] = "create_dir"
    /\ LET path == version_dir(req[r].project, req[r].version)
           c == fs_create_dir(path) IN
       IF ~IsOk(c)
       THEN /\ seen' = [seen EXCEPT ![r].ret = "IO"]
            /\ Finish(r, c)
            /\ UNCHANGED <<dirs, req, made>>
       ELSE /\ dirs' = dirs \cup {c.val}
            /\ made' = [made EXCEPT ![r] = @ \cup {c.val}]
            /\ req' = [req EXCEPT ![r].outpath = Push(path, req[r].fname)]
            /\ seen' = [seen EXCEPT ![r].ret = "path"]
            /\ pc' = [pc EXCEPT ![r] = "bytes"]
            /\ UNCHANGED result
    /\ UNCHANGED <<files, auth, input, output>>

\* field.bytes().await? fails: the request ends with the destination unused
BytesFail(r) ==
    /\ pc[r] = "bytes"
    /\ Finish(r, Err("multipart"))
    /\ UNCHANGED <<dirs, files, req, auth, seen, made, input, output>>

\* field.bytes().await?, then fs::write(outpath, bytes)
WriteFile(r) ==
    /\ pc[r] = "bytes"
    /\ \E bytes \in Bytes :
         LET w == fs_write(req[r].outpath) IN
         IF ~IsOk(w)
         THEN /\ Finish(r, w)
              /\ UNCHANGED <<files, req, made>>
         ELSE /\ files' = [n \in DOMAIN files \cup {w.val} |->
                             IF n = w.val THEN bytes ELSE files[n]]
              /\ made' = [made EXCEPT ![r] = @ \cup {w.val}]
              /\ req' = [req EXCEPT ![r].got_file = TRUE]
              /\ pc' = [pc EXCEPT ![r] = "fields"]
              /\ UNCHANGED result
    /\ UNCHANGED <<dirs, auth, seen, input, output>>

(***************************************************************************)
(* The store under concurrent requests.                                    *)
(***************************************************************************)
ProjectP == <<<<"s">>, <<"p">>>>
ProjectQ == <<<<"s">>, <<"q">>>>

\* a provisioned store: project p with both allow-lists, project q with a
\* readers list only
InitDirs ==
    {<<>>, <<<<"s">>>>, ProjectP, Append(ProjectP, Versions),
     ProjectQ, Append(ProjectQ, Versions)}

InitFiles ==
    (Append(ProjectP, ReadersTxt) :> <<"r", "\n">>)
    @@ (Append(ProjectP, WritersTxt) :> <<"w", "\n">>)
    @@ (Append(ProjectQ, ReadersTxt) :> <<"w", "\n", "r", "\n">>)

NoInput == <<>>
NoOutput == [fn |-> "none", res |-> Ok(Unit)]

Init ==
    /\ dirs = InitDirs
    /\ files = InitFiles
    /\ pc = [r \in Reqs |-> "idle"]
    /\ req = [r \in Reqs |-> NoReq]
    /\ auth = [r \in Reqs |-> {}]
    /\ seen = [r \in Reqs |-> NoCall]
    /\ result = [r \in Reqs |-> Ok(Unit)]
    /\ made = [r \in Reqs |-> {}]
    /\ input = NoInput
    /\ output = NoOutput

Next ==
    \E r \in Reqs :
        \/ GetProjects(r)
        \/ ReadStart(r)
        \/ WriteStart(r)
        \/ GetVersions(r)
        \/ VersionNew(r)
        \/ VersionMissing(r)
        \/ FileForVersion(r)
        \/ PathForVersion(r)
        \/ ServeFile(r)
        \/ NextField(r)
        \/ SkipField(r)
        \/ NextFieldFail(r)
        \/ EndOfFields(r)
        \/ OutpathExists(r)
        \/ OutpathReadDir(r)
        \/ OutpathCreateDir(r)
        \/ BytesFail(r)
        \/ WriteFile(r)

Spec == Init /\ [][Next]_vars

(***************************************************************************)
(* The name validators on every short name.                                *)
(***************************************************************************)
NameAlphabet == {"a", "1", "-", "_", ".", "/", " "}
NameInputs == Str(NameAlphabet, MaxNameLen)

InitNames ==
    /\ dirs = InitDirs
    /\ files = InitFiles
    /\ pc = [r \in Reqs |-> "idle"]
    /\ req = [r \in Reqs |-> NoReq]
    /\ auth = [r \in Reqs |-> {}]
    /\ seen = [r \in Reqs |-> NoCall]
    /\ result = [r \in Reqs |-> Ok(Unit)]
    /\ made = [r \in Reqs |-> {}]
    /\ input \in NameInputs
    /\ output = NoOutput

ApplyProjectNew ==
    /\ output' = [fn |-> "Project::new", res |-> Project_new(input)]
    /\ UNCHANGED <<storeVars, input>>

ApplyVersionNew ==
    /\ output' = [fn |-> "Version::new", res |-> Version_new(input)]
    /\ UNCHANGED <<storeVars, input>>

NextNames == ApplyProjectNew \/ ApplyVersionNew

SpecNames == InitNames /\ [][NextNames]_vars

(***************************************************************************)
(* Authorization on every short allow-list: project p holds one allow-list *)
(* of any short contents, or none, and a request carries any short token.  *)
(***************************************************************************)
FileAlphabet == {"t", "T", "\n", "\r"}
TokenAlphabet == {"t", "T"}
MaxTokenLen == 2
ListContents == Str(FileAlphabet, MaxFileLen)
Tokens == Str(TokenAlphabet, MaxTokenLen)

InitAuth ==
    /\ dirs = InitDirs
    /\ \/ files = <<>>
       \/ \E list \in {ReadersTxt, WritersTxt}, c \in ListContents :
            files = (Append(ProjectP, list) :> c)
    /\ pc = [r \in Reqs |-> "idle"]
    /\ req = [r \in Reqs |-> NoReq]
    /\ auth = [r \in Reqs |-> {}]
    /\ seen = [r \in Reqs |-> NoCall]
    /\ result = [r \in Reqs |-> Ok(Unit)]
    /\ made = [r \in Reqs |-> {}]
    /\ input = NoInput
    /\ output = NoOutput

ApplyProjectReader ==
    /\ \E token \in Tokens :
         /\ input' = token
         /\ output' = [fn |-> "project_reader",
                       res |-> project_reader(<<"p">>, Header(Bearer \o token))]
    /\ UNCHANGED storeVars

ApplyProjectWriter ==
    /\ \E token \in Tokens :
         /\ input' = token
         /\ output' = [fn |-> "project_writer",
                       res |-> project_writer(<<"p">>, Header(Bearer \o token))]
    /\ UNCHANGED storeVars

NextAuth == ApplyProjectReader \/ ApplyProjectWriter

SpecAuth == InitAuth /\ [][NextAuth]_vars

(***************************************************************************)
(* Credential::from_headers on no header and on every short header value:  *)
(* a prefix that is, or resembles, "Bearer ", followed by any short text.  *)
(***************************************************************************)
HeaderAlphabet == {"t", " ", "B", HighByte}
HeaderPrefixes ==
    {Bearer, <<"B", "e", "a", "r", "e", "r">>, <<"b", "e", "a", "r", "e", "r", " ">>,
     <<"B", "a", "s", "i", "c", " ">>, <<" ">> \o Bearer, <<>>}
HeaderValues ==
    {prefix \o rest : prefix \in HeaderPrefixes, rest \in Str(HeaderAlphabet, MaxTokenLen)}
HeaderMaps == {NoHeader} \cup {Header(v) : v \in HeaderValues}

InitCred ==
    /\ dirs = InitDirs
    /\ files = InitFiles
    /\ pc = [r \in Reqs |-> "idle"]
    /\ req = [r \in Reqs |-> NoReq]
    /\ auth = [r \in Reqs |-> {}]
    /\ seen = [r \in Reqs |-> NoCall]
    /\ result = [r \in Reqs |-> Ok(Unit)]
    /\ made = [r \in Reqs |-> {}]
    /\ input \in HeaderMaps
    /\ output = NoOutput

ApplyFromHeaders ==
    /\ output' = [fn |-> "from_headers", res |-> from_headers(input)]
    /\ UNCHANGED <<storeVars, input>>

NextCred == ApplyFromHeaders

SpecCred == InitCred /\ [][NextCred]_vars

(***************************************************************************)
(* Properties of the validators and of the allow-list check.               *)
(***************************************************************************)
HasSeparator(s) == \E i \in DOMAIN s : s[i] = "/"
HasDotDot(s) == \E i \in 1..(Len(s) - 1) : s[i] = "." /\ s[i + 1] = "."
HasOtherChar(s) ==
    \E i \in DOMAIN s : s[i] \notin Letters \cup Digits \cup {"-", "_", "."}

\* C5: Version::new returns InvalidVersion for every string that contains a
\* path separator, the substring "..", or a character other than an
\* alphanumeric, '-', '_' or '.'.
VersionRejectsUnsafe ==
    (output.fn = "Version::new"
     /\ (HasSeparator(input) \/ HasDotDot(input) \/ HasOtherChar(input)))
    => IsErr(output.res, "InvalidVersion")

\* C6: Project::new accepts a name if and only if it is non-empty and every
\* character of it is alphanumeric, '-' or '_'; the empty name is rejected
\* with InvalidProject.
ProjectAcceptsNonEmptyValid ==
    output.fn = "Project::new"
    => /\ IsOk(output.res) <=>
            (input # <<>>
             /\ \A i \in DOMAIN input : input[i] \in Letters \cup Digits \cup {"-", "_"})
       /\ ~IsOk(output.res) => IsErr(output.res, "InvalidProject")

\* the lines of a text: the segments between line feeds, a line that ends
\* in a line feed being taken without the carriage return before it; no
\* line follows the last line feed
TextLines(s) ==
    {IF j < Len(s) /\ j >= i /\ s[j] = "\r" THEN SubSeq(s, i, j - 1) ELSE SubSeq(s, i, j) :
       <<i, j>> \in {x \in (1..Len(s)) \X (0..Len(s)) :
                       /\ x[2] >= x[1] - 1
                       /\ x[1] = 1 \/ s[x[1] - 1] = "\n"
                       /\ x[2] = Len(s) \/ s[x[2] + 1] = "\n"
                       /\ \A k \in x[1]..x[2] : s[k] # "\n"}}

\* the allow-list that the applied operation reads
ListOf(fn) == Append(ProjectP, IF fn = "project_reader" THEN ReadersTxt ELSE WritersTxt)
Applied == output.fn \in {"project_reader", "project_writer"}
Lower(s) == [i \in DOMAIN s |-> ToLower(s[i])]

\* C8: authorization succeeds if and only if some line of the allow-list
\* equals the token exactly; a proper substring, a superstring or a case
\* variant of a listed line is refused, and a token equal to a line is
\* accepted at any position of the line.
ExactMatch ==
    (Applied /\ ListOf(output.fn) \in DOMAIN files)
    => (IsOk(output.res) <=> input \in TextLines(files[ListOf(output.fn)]))

\* a token accepted on the second line, the first line being a case variant of it
ExactMatchWitness ==
    /\ Applied
    /\ ListOf(output.fn) \in DOMAIN files
    /\ LET ls == Lines(files[ListOf(output.fn)]) IN
       /\ Len(ls) >= 2
       /\ ls[1] # input /\ Lower(ls[1]) = Lower(input)
       /\ ls[2] = input
    /\ IsOk(output.res)

\* C10: a missing allow-list makes project_reader / project_writer fail with
\* the I/O error, never with the unauthorized error and never with success;
\* the unauthorized error is returned only when the list was opened and no
\* line matched.
MissingListIsIO ==
    Applied
    => /\ ListOf(output.fn) \notin DOMAIN files => IsErr(output.res, "IO")
       /\ (IsErr(output.res, "unauthorized reader")
           \/ IsErr(output.res, "unauthorized writer"))
          => /\ ListOf(output.fn) \in DOMAIN files
             /\ input \notin TextLines(files[ListOf(output.fn)])

\* project_writer applied where readers.txt exists and writers.txt does not
MissingListWitness ==
    /\ output.fn = "project_writer"
    /\ Append(ProjectP, ReadersTxt) \in DOMAIN files
    /\ Append(ProjectP, WritersTxt) \notin DOMAIN files
    /\ IsErr(output.res, "IO")

(***************************************************************************)
(* Properties of the store under concurrent requests.                      *)
(***************************************************************************)
\* C1: write-once: an outpath_for call that starts when the directory of its
\* (project, version) holds a written file fails with "version already
\* exists" and returns no destination path.
WriteOnce ==
    \A r \in Reqs :
        (seen[r].called /\ seen[r].populated)
        => /\ pc[r] \in {"read_dir", "done"}
           /\ req[r].outpath = <<>>
           /\ pc[r] = "done"
              => /\ seen[r].ret = "version already exists"
                 /\ IsErr(result[r], "version already exists")

\* a call that found a written file in its version directory has returned
WriteOnceWitness ==
    \E r \in Reqs :
        /\ seen[r].called /\ seen[r].populated
        /\ pc[r] = "done"
        /\ \E q \in Reqs \ {r} : req[q].got_file /\ VersionNode(q) = seen[r].node

\* the directories of versions: the directories in a project's versions directory
VersionDirs ==
    {n \in dirs : Parent(n) \in {Append(ProjectP, Versions), Append(ProjectQ, Versions)}}

\* the entries of a directory, each file with its contents
Snapshot(node) ==
    [m \in {n \in dirs \cup DOMAIN files : Parent(n) = node /\ n # node} |->
        IF m \in DOMAIN files THEN files[m] ELSE <<"/">>]

\* C2: version immutability: once a version directory exists and is
\* non-empty, its set of files and their contents never change.
VersionImmutable ==
    [][\A n \in VersionDirs :
          Entries(n) # {} => (n \in dirs' /\ Snapshot(n)' = Snapshot(n))]_vars

\* C3: retry after an abandoned upload: an outpath_for call that starts when
\* the directory of its (project, version) exists, is empty and is held by no
\* upload in flight, succeeds and returns a destination path.
RetryAfterAbandoned ==
    \A r \in Reqs :
        (seen[r].called /\ seen[r].abandoned /\ seen[r].ret # "none"
         /\ Entries(seen[r].node) = {})
        => seen[r].ret = "path"

\* two calls for the same directory, with different file names, that both
\* passed the existence check finding no directory
Racing(r, q) ==
    /\ r # q
    /\ seen[r].called /\ seen[q].called
    /\ seen[r].absent /\ seen[q].absent
    /\ seen[r].resolved /\ seen[q].resolved
    /\ seen[r].node = seen[q].node
    /\ req[r].fname # req[q].fname

AuthorizationGate ==
    \A r \in Reqs :
        /\ pc[r] \in {"list_versions", "file_for_version", "path_for_version", "serve"}
           => <<ReadersTxt, req[r].project>> \in auth[r]
        /\ (pc[r] \in {"exists", "read_dir", "create_dir", "bytes"} \/ seen[r].called)
           => <<WritersTxt, req[r].project>> \in auth[r]

\* one request is at file_for_version while another is inside outpath_for
AuthorizationGateWitness ==
    \E r, q \in Reqs : pc[r] = "file_for_version" /\ pc[q] = "create_dir"

\* the token that the header of a request carries
Carried(h) == SubSeq(h.val, Len(Bearer) + 1, Len(h.val))
Listed(list, project, h) ==
    /\ h.present /\ StartsWith(h.val, Bearer)
    /\ <<<<"s">>, project, list>> \in DOMAIN files
    /\ Carried(h) \in TextLines(files[<<<<"s">>, project, list>>])
ReaderOnly(r) ==
    /\ req[r].kind # "none"
    /\ Listed(ReadersTxt, req[r].project, req[r].header)
    /\ ~Listed(WritersTxt, req[r].project, req[r].header)

\* C9: a token listed in readers.txt and not in writers.txt obtains a
\* ProjectReader and lists versions, and is refused by project_writer: its
\* upload never reaches outpath_for, creates no directory, writes no file.
ReaderCannotWrite ==
    \A r \in Reqs :
        ReaderOnly(r)
        => /\ req[r].kind = "new_version"
              => /\ pc[r] = "done"
                 /\ ~IsOk(result[r])
                 /\ <<<<"s">>, req[r].project, WritersTxt>> \in DOMAIN files
                    => IsErr(result[r], "unauthorized writer")
                 /\ ~seen[r].called
                 /\ made[r] = {}
                 /\ auth[r] = {}
           /\ req[r].kind = "get_versions"
              => /\ <<ReadersTxt, req[r].project>> \in auth[r]
                 /\ pc[r] = "list_versions" \/ (pc[r] = "done" /\ IsOk(result[r]))

\* the same reader-only token has listed the versions in one request and
\* been refused an upload in another
ReaderCannotWriteWitness ==
    \E r, q \in Reqs :
        /\ ReaderOnly(r) /\ ReaderOnly(q)
        /\ req[r].header = req[q].header /\ req[r].project = req[q].project
        /\ req[r].kind = "get_versions" /\ pc[r] = "done" /\ IsOk(result[r])
        /\ req[q].kind = "new_version" /\ IsErr(result[q], "unauthorized writer")

(***************************************************************************)
(* Properties of the resolvers of a version.                               *)
(***************************************************************************)
\* the directory of the version of request r exists
HasVersionDir(r) ==
    LET w == Resolve(version_dir(req[r].project, req[r].version)) IN
    w.st = "ok" /\ IsDir(w.node)

\* the directory of the version of request r holds exactly one entry
HoldsOne(r) == HasVersionDir(r) /\ Cardinality(Entries(VersionNode(r))) = 1
OneEntry(r) == CHOOSE f \in Entries(VersionNode(r)) : TRUE

\* a step in which request r leaves position p
Leaves(r, p) == pc[r] = p /\ pc'[r] # p

\* an upload of exactly one field with a file name returns success
SingleFileUploaded(r) ==
    /\ req[r].kind = "new_version"
    /\ Leaves(r, "fields")
    /\ pc'[r] = "done" /\ IsOk(result'[r])
    /\ req[r].nfields = 1

\* the resolvers called where the directory holds exactly one entry
ResolvesOne(r) ==
    /\ (Leaves(r, "file_for_version") /\ HoldsOne(r))
       => IF req[r].kind = "get_version"
          THEN IsOk(result'[r]) /\ result'[r].val = OneEntry(r)
          ELSE pc'[r] = "path_for_version" \/ IsErr(result'[r], "InvalidFile")
    /\ (Leaves(r, "path_for_version") /\ HoldsOne(r))
       => /\ pc'[r] = "serve"
          /\ req'[r].outpath =
                 Push(Push(versions_dir(req[r].project), req[r].version), OneEntry(r))

\* the resolvers called in the state in which a single-file upload returns
AfterUpload(r) ==
    SingleFileUploaded(r)
    => LET file == file_for_version(req[r].project, req[r].version)
           path == path_for_version(req[r].project, req[r].version) IN
       /\ IsOk(file) /\ file.val = req[r].fname
       /\ IsOk(path)
       /\ path.val = Push(Push(versions_dir(req[r].project), req[r].version),
                          req[r].fname)

\* C11: where the version directory holds exactly one entry f,
\* file_for_version returns f and path_for_version returns
\* <root>/<project>/versions/<version>/f, from the contents of the directory
\* at the time of the call; after a successful single-file upload of file
\* name f both return that f.
ResolversReturnTheFile ==
    [][\A r \in Reqs : ResolvesOne(r) /\ AfterUpload(r)]_vars

\* the directory of (project, version) exists and does not hold exactly one entry
NotOne(project, version) ==
    LET w == Resolve(version_dir(project, version)) IN
    w.st = "ok" /\ IsDir(w.node) /\ Cardinality(Entries(w.node)) # 1

\* both resolvers fail with CorruptedVersion on every accepted (project,
\* version) whose directory does not hold exactly one entry
ResolversCorrupted ==
    \A project \in ProjectInputs, version \in VersionInputs :
        (IsOk(Project_new(project)) /\ IsOk(Version_new(version))
         /\ NotOne(project, version))
        => /\ IsErr(file_for_version(project, version), "CorruptedVersion")
           /\ IsErr(path_for_version(project, version), "CorruptedVersion")

\* a read request that calls a resolver on such a directory ends with the error
ReadsCorrupted(r) ==
    \A p \in {"file_for_version", "path_for_version"} :
        (Leaves(r, p) /\ HasVersionDir(r) /\ ~HoldsOne(r))
        => (pc'[r] = "done" /\ IsErr(result'[r], "CorruptedVersion"))

\* C12: whenever the version directory exists and holds zero entries or two
\* or more, file_for_version and path_for_version both fail with
\* CorruptedVersion, a read that interleaves with an upload in flight (the
\* directory created, the file not yet written) included.
CorruptedVersionReported ==
    /\ []ResolversCorrupted
    /\ [][\A r \in Reqs : ReadsCorrupted(r)]_vars

\* a read ended with CorruptedVersion while the upload of the same version
\* holds its destination and has not written
CorruptedVersionWitness ==
    \E r, q \in Reqs :
        /\ req[r].kind \in {"get_version", "get_version_content"}
        /\ pc[r] = "done" /\ IsErr(result[r], "CorruptedVersion")
        /\ pc[q] = "bytes" /\ seen[q].ret = "path"
        /\ HasVersionDir(r) /\ VersionNode(q) = VersionNode(r)
        /\ Entries(VersionNode(r)) = {}

(***************************************************************************)
(* Properties of the upload handler.                                       *)
(***************************************************************************)
\* the files that request r wrote
Written(r) == made[r] \cap DOMAIN files

\* C13: no partial success: an upload request either returns success having
\* written at least one file, or returns an error having written nothing; no
\* request that ends in an error leaves a file of that request behind.
NoPartialSuccess ==
    \A r \in Reqs :
        (req[r].kind = "new_version" /\ pc[r] = "done")
        => IF IsOk(result[r]) THEN Written(r) # {} ELSE Written(r) = {}

\* the versions directory of the project of request r, resolved
VersionsNode(r) == <<<<"s">>, req[r].project, Versions>>

\* C14: path containment: the destination returned by outpath_for and the
\* path returned by path_for_version are direct children of
\* <root>/<project>/versions/<version>/, and the directory that outpath_for
\* lists or creates is a direct child of <root>/<project>/versions/.
PathContainment ==
    \A r \in Reqs :
        /\ (seen[r].called /\ seen[r].resolved)
           => Parent(seen[r].node) = VersionsNode(r)
        /\ req[r].outpath # <<>>
           => LET w == Resolve(req[r].outpath) IN
              w.st = "ok"
              => /\ Parent(w.node) = VersionNode(r)
                 /\ Parent(VersionNode(r)) = VersionsNode(r)

(***************************************************************************)
(* Properties of the credential.                                           *)
(***************************************************************************)
\* C15: an empty token never authorizes: the header "Bearer " yields the
\* credential with the empty token, and project_reader / project_writer
\* refuse it whatever the allow-list holds.
EmptyTokenRefused ==
    (Applied /\ input = <<>>)
    => /\ IsOk(from_headers(Header(Bearer)))
       /\ from_headers(Header(Bearer)).val = <<>>
       /\ ~IsOk(output.res)

\* a header value that HeaderValue::to_str takes for text
ValidText(v) == \A i \in DOMAIN v : v[i] # HighByte

\* C16: from_headers is total over its cases: no Authorization header gives
\* UnprovidedAuthorization; a header that is not valid text, or valid text
\* that does not start with "Bearer ", gives Other; a (valid text) header
\* that starts with "Bearer " gives the credential whose token is exactly
\* the text after that 7-character prefix.
FromHeadersTotal ==
    output.fn = "from_headers"
    => /\ ~input.present => IsErr(output.res, "UnprovidedAuthorization")
       /\ (input.present /\ ~ValidText(input.val))
          => IsErr(output.res, "bad header encoding")
       /\ (input.present /\ ValidText(input.val) /\ ~StartsWith(input.val, Bearer))
          => IsErr(output.res, "unknown authentication method")
       /\ (input.present /\ ValidText(input.val) /\ StartsWith(input.val, Bearer))
          => /\ IsOk(output.res)
             /\ Len(Bearer) = 7
             /\ Bearer \o output.res.val = input.val

\* a token with a space in it, taken whole from behind the prefix
FromHeadersWitness ==
    /\ output.fn = "from_headers"
    /\ input.present /\ StartsWith(input.val, Bearer)
    /\ IsOk(output.res)
    /\ Len(output.res.val) = 2 /\ output.res.val[1] = " "

\* C17: the leading-dot clause of Version::new has no effect: Version::new
\* accepts a string if and only if every character of it is alphanumeric,
\* '-', '_' or '.'.
LeadingDotNoEffect ==
    output.fn = "Version::new"
    => (IsOk(output.res) <=> ~HasOtherChar(input))

(***************************************************************************)
(* Properties of the order of validation.                                  *)
(***************************************************************************)
\* a name with a character outside the set allowed for a project
BadProject(name) == \E i \in DOMAIN name : name[i] \notin Letters \cup Digits \cup {"-", "_"}

\* request r has ended with error e and has reached neither an allow-list
\* check that passed nor the versions directory
Refused(r, e) ==
    /\ pc[r] = "done" /\ IsErr(result[r], e)
    /\ auth[r] = {} /\ ~seen[r].called /\ made[r] = {}

\* the positions of a handler behind Version::new
BehindVersion ==
    {"file_for_version", "path_for_version", "serve", "fields", "exists",
     "read_dir", "create_dir", "bytes"}

\* C18: validation precedes every filesystem access: a request with no
\* Authorization header fails with UnprovidedAuthorization, whatever its
\* project name; one with a malformed header fails with Other; one with an
\* invalid project name fails with InvalidProject before the allow-list is
\* read; one with an invalid version name fails with InvalidVersion before
\* the versions directory is accessed.
ValidationFirst ==
    \A r \in Reqs :
        req[r].kind \notin {"none", "get_projects"}
        => /\ ~req[r].header.present => Refused(r, "UnprovidedAuthorization")
           /\ (req[r].header.present /\ ~StartsWith(req[r].header.val, Bearer))
              => Refused(r, "unknown authentication method")
           /\ (req[r].header.present /\ StartsWith(req[r].header.val, Bearer)
               /\ BadProject(req[r].project))
              => Refused(r, "InvalidProject")
           /\ HasOtherChar(req[r].version)
              => /\ pc[r] = "done" /\ IsErr(result[r], "InvalidVersion")
                 /\ ~seen[r].called /\ made[r] = {}
           /\ pc[r] \in BehindVersion => ~HasOtherChar(req[r].version)

(***************************************************************************)
(* Properties of allocation and of the frame of the operations.            *)
(***************************************************************************)
\* a step in which the outpath_for call of request r returns a destination
ReturnsPath(r) == pc[r] = "create_dir" /\ pc'[r] = "bytes"

\* a step in which the outpath_for call of request r returns an error
ReturnsError(r) == pc[r] \in {"exists", "read_dir", "create_dir"} /\ pc'[r] = "done"

\* C19: single allocation per version: no directory is ever deleted, a call
\* of outpath_for returns a destination only for a version directory that
\* did not exist and that it creates in that step, so that over any
\* interleaving at most one call returns a destination for one (project,
\* version); every other call fails with "version already exists" or with
\* the I/O error of create_dir.
SingleAllocation ==
    [][/\ dirs \subseteq dirs'
       /\ \A r \in Reqs :
            /\ ReturnsPath(r)
               => /\ VersionNode(r) \notin dirs /\ VersionNode(r) \in dirs'
                  /\ \A q \in Reqs : VersionNode(r) \notin made[q]
                  /\ seen'[r].ret = "path"
            /\ ReturnsError(r)
               => /\ seen'[r].ret \in {"version already exists", "IO"}
                  /\ IsErr(result'[r], seen'[r].ret)
                  /\ dirs' = dirs]_vars

\* one upload was allocated the directory and wrote; its next field was
\* refused with "version already exists", and a racing upload of the same
\* version failed in create_dir
SingleAllocationWitness ==
    \E r, q \in Reqs :
        /\ r # q
        /\ seen[r].resolved /\ seen[q].resolved /\ seen[r].node = seen[q].node
        /\ seen[r].node \in made[r] /\ req[r].got_file
        /\ seen[r].ret = "version already exists"
        /\ seen[q].absent /\ seen[q].ret = "IO"

\* a step of request r in the core, other than a successful outpath_for:
\* every step but the write of the transport layer
CoreStep(r) == pc'[r] # pc[r] /\ pc[r] # "bytes" /\ ~ReturnsPath(r)

\* directory n holds nothing after the step
EmptyAfter(n) == \A m \in dirs' \cup DOMAIN files' : m = n \/ Parent(m) # n

\* C20: frame of the core operations: list_projects, list_versions,
\* file_for_version, path_for_version, project_reader, project_writer and
\* every outpath_for that returns an error leave the filesystem tree
\* unchanged, and a listing is the set of entries of the tree as it is; the
\* only change the core makes is a successful outpath_for creating exactly
\* one empty directory; nothing is ever deleted or renamed.
FrameOfCore ==
    [][/\ dirs \subseteq dirs'
       /\ \A n \in DOMAIN files : n \in DOMAIN files'
       /\ \A r \in Reqs :
            /\ CoreStep(r) => (dirs' = dirs /\ files' = files)
            /\ ReturnsPath(r)
               => /\ files' = files
                  /\ VersionNode(r) \notin dirs
                  /\ dirs' = dirs \cup {VersionNode(r)}
                  /\ EmptyAfter(VersionNode(r))
            /\ (pc[r] = "list_versions" /\ pc'[r] = "done" /\ IsOk(result'[r]))
               => result'[r].val = Entries(VersionsNode(r))
            /\ (pc[r] = "idle" /\ req'[r].kind = "get_projects" /\ IsOk(result'[r]))
               => result'[r].val = Entries(<<<<"s">>>>)]_vars

\* the projects were listed while an upload, allocated one directory, had
\* its next outpath_for refused
FrameOfCoreWitness ==
    \E r, q \in Reqs :
        /\ req[r].kind = "get_projects" /\ pc[r] = "done" /\ IsOk(result[r])
        /\ result[r].val = {<<"p">>, <<"q">>}
        /\ seen[q].ret = "version already exists"
        /\ Cardinality(made[q] \cap dirs) = 1

====
